---- MODULE Spec2Model ----
(***************************************************************************)
(* arm_nn_vec_mat_mult_t_s8: s8 vector by transposed-matrix multiplication *)
(* (Source/NNSupportFunctions/arm_nn_vec_mat_mult_t_s8.c).                 *)
(*                                                                         *)
(* The three preprocessor bodies of the function (ARM_MATH_MVEI,           *)
(* ARM_MATH_DSP, plain C) are modelled as three step machines over the     *)
(* same arguments.  A driver calls the function once per entry of `calls`  *)
(* (a build and a bias pointer) on a fresh copy of the destination memory  *)
(* and collects what each call left behind, so that the results of the     *)
(* builds can be compared.                                                 *)
(*                                                                         *)
(* C arrays are 0-based; the sequences below are 1-based, so element i of  *)
(* a C array is s[i + 1].  Pointers are offsets from the argument they     *)
(* were derived from.                                                      *)
(***************************************************************************)
EXTENDS Integers, Sequences, FiniteSets, TLC

\* ------------------------------------------------------------------ bounds
MaxRows == 6
MaxCols == 17
MaxAddr == 2

\* ------------------------------------------------- constants of the source
VecLanes == 16
TileRowsWide == 3
TileRowsDsp == 2
DspLanes == 4

\* ----------------------------------------------------------------- helpers
MAX(A, B) == IF A > B THEN A ELSE B

MIN(A, B) == IF A < B THEN A ELSE B

\* (int8_t)x: keep the low 8 bits, read as two's complement
Narrow8(x) == ((x + 128) % 256) - 128

\* (int16_t)x
Narrow16(x) == ((x + 32768) % 65536) - 32768

RECURSIVE Pow2(_)
Pow2(n) == IF n = 0 THEN 1 ELSE 2 * Pow2(n - 1)

TwoTo30 == Pow2(30)

INT32_MAX == (TwoTo30 - 1) + TwoTo30

\* ---- 64-bit product u * m as <<q, r>> with u * m = q * 2^31 + r, 0 <= r < 2^31
\* (|u| < 2^23, 0 <= m < 2^31; m is taken in four 8-bit limbs)
ShiftQR(p, n) == <<p[1] * Pow2(n) + p[2] \div Pow2(31 - n), (p[2] % Pow2(31 - n)) * Pow2(n)>>

AddQR(p, u) ==
    IF p[2] > INT32_MAX - u THEN <<p[1] + 1, (p[2] - (INT32_MAX - u)) - 1>>
    ELSE <<p[1], p[2] + u>>

Limb(m, n) == (m \div Pow2(8 * n)) % 256

UMulQR(u, m) ==
    LET h3 == <<0, u * Limb(m, 3)>>
        h2 == AddQR(ShiftQR(h3, 8), u * Limb(m, 2))
        h1 == AddQR(ShiftQR(h2, 8), u * Limb(m, 1))
    IN  AddQR(ShiftQR(h1, 8), u * Limb(m, 0))

MulQR(v, m) ==
    IF v >= 0 THEN UMulQR(v, m)
    ELSE LET p == UMulQR(-v, m)
         IN  IF p[2] = 0 THEN <<-p[1], 0>>
             ELSE <<-p[1] - 1, (INT32_MAX - p[2]) + 1>>

\* The requantize primitive: val * multiplier (Q31), then a rounding
\* (half up) right shift by `shift`, a left shift when `shift` is negative.
arm_nn_requantize(val, multiplier, shift) ==
    LET p  == MulQR(val, multiplier)
        r0 == p[1] + (IF p[2] >= TwoTo30 THEN 1 ELSE 0)
    IN  IF shift = 0 THEN r0
        ELSE IF shift > 0 THEN (p[1] + Pow2(shift - 1)) \div Pow2(shift)
        ELSE r0 * Pow2(-shift)

\* the vector form applies the same primitive to each 32-bit lane
arm_requantize_mve(acc, multiplier, shift) ==
    [n \in DOMAIN acc |-> arm_nn_requantize(acc[n], multiplier, shift)]

\* ------------------------------------------------------------------- state
VARIABLES
    calls,  \* the calls the driver makes: <<[build, bias], ...>>
    k,      \* index of the current call
    arg,    \* the arguments every call gets (all but bias)
    pc,     \* position inside the current call
    l,      \* the locals of the current call
    dst,    \* the destination memory, from the dst argument on
    ret,    \* the value returned by the current call
    g,      \* history of the current call (what was read, written, requantized)
    res     \* what each finished call left: <<[dst, ret, g], ...>>

vars == <<calls, k, arg, pc, l, dst, ret, g, res>>

Builds == <<"SCALAR", "DSP", "MVEI">>

\* last index of the modelled destination memory: one byte past the last row
DstTop == MaxRows * MaxAddr

NoBias == [present |-> FALSE, v |-> <<>>]

build == calls[k].build

bias == calls[k].bias

rhs_cols == arg.rhs_cols

rhs_rows == arg.rhs_rows

address_offset == arg.address_offset

\* ------------------------------------------------------------ memory reads
\* lhs[i], rhs[i], bias[i]; a read outside the array is counted in g.oob
InLhs(i) == i >= 0 /\ i < rhs_cols

InRhs(i) == i >= 0 /\ i < rhs_rows * rhs_cols

InBias(i) == i >= 0 /\ i < Len(bias.v)

LhsAt(i) == IF InLhs(i) THEN arg.lhs[i + 1] ELSE 0

RhsAt(i) == IF InRhs(i) THEN arg.rhs[i + 1] ELSE 0

BiasAt(i) == IF InBias(i) THEN bias.v[i + 1] ELSE 0

\* the element at index i of the buffer a pointer points into
At(mem, i) ==
    CASE mem = "lhs"  -> LhsAt(i)
      [] mem = "rhs"  -> RhsAt(i)
      [] mem = "bias" -> BiasAt(i)

\* history after reading the lhs indices L, the rhs indices R, the bias indices B
Reads(h, L, R, B) ==
    [h EXCEPT
        !.lhsHits = [i \in DOMAIN h.lhsHits |-> h.lhsHits[i] + (IF i \in L THEN 1 ELSE 0)],
        !.rhsHits = [i \in DOMAIN h.rhsHits |-> h.rhsHits[i] + (IF i \in R THEN 1 ELSE 0)],
        !.biasHits = [i \in DOMAIN h.biasHits |-> h.biasHits[i] + (IF i \in B THEN 1 ELSE 0)],
        !.oob = h.oob + Cardinality({i \in L : ~InLhs(i)})
                      + Cardinality({i \in R : ~InRhs(i)})
                      + Cardinality({i \in B : ~InBias(i)})]

\* a column walk starts: nothing of lhs has been read in it yet
NewWalk(h) == [h EXCEPT !.lhsHits = [i \in DOMAIN h.lhsHits |-> 0]]

\* history after handing accumulator a of row r to the requantizer
Requantized(h, r, a) == [h EXCEPT !.accs = Append(h.accs, [row |-> r, acc |-> a])]

\* ----------------------------------------------------------- memory writes
\* *(dst + idx) = (int8_t)v, for row r (r = -1: a lane that belongs to no row);
\* pre is the value before clamping
Store(m, idx, v) == [m EXCEPT ![idx] = Narrow8(v)]

Stored(h, r, idx, pre, v) ==
    [h EXCEPT !.wcount = [i \in DOMAIN h.wcount |-> h.wcount[i] + (IF i = idx THEN 1 ELSE 0)],
              !.st = Append(h.st, [row |-> r, idx |-> idx, pre |-> pre, val |-> Narrow8(v)])]

\* mutant: the upper bound is not applied
ScalarClampNoMax(v) == MAX(v, arg.activation_min)

\* res = MAX(res, activation_min); res = MIN(res, activation_max);
ScalarClamp(v) == MIN(MAX(v, arg.activation_min), arg.activation_max)

DspClamp(v) == MIN(MAX(v, arg.activation_min), arg.activation_max)

MveRemClamp(v) == MIN(MAX(v, arg.activation_min), arg.activation_max)

\* ------------------------------------------------------------------ inputs
S8 == <<-128, 127, -1, 0, 1, 50, -77>>

LhsOf(seed, n) == [c \in 1..n |-> S8[((seed + 3 * (c - 1)) % Len(S8)) + 1]]

RhsOf(seed, n) == [i \in 1..n |-> S8[((2 * seed + 5 * (i - 1)) % Len(S8)) + 1]]

ZeroBias(n) == [present |-> TRUE, v |-> [r \in 1..n |-> 0]]

RampBias(n) == [present |-> TRUE, v |-> [r \in 1..n |-> 900 * r * r - 2000]]

Biases(n) == {NoBias, RampBias(n)}

\* the memory dst points to before a call
Dst0 == [i \in 0..DstTop |-> 77 + i]

\* dst_multiplier, dst_shift, dst_offset, activation range, lhs_offset, data
Profiles ==
    { [m |-> INT32_MAX,  s |-> 0,  doff |-> 0,    amin |-> -128, amax |-> 127, loff |-> 0,    seed |-> 4],
      [m |-> TwoTo30,    s |-> 9,  doff |-> -3,   amin |-> -128, amax |-> 127, loff |-> 128,  seed |-> 0],
      [m |-> 1717986918, s |-> 12, doff |-> 10,   amin |-> 5,    amax |-> 17,  loff |-> -255, seed |-> 1],
      [m |-> TwoTo30,    s |-> -1, doff |-> -128, amin |-> -100, amax |-> -100, loff |-> 5,   seed |-> 2] }

Cols == {c \in 1..MaxCols : c <= DspLanes + 1 \/ c >= VecLanes - 1}

Args(p, rows, cols, ao) ==
    [lhs |-> LhsOf(p.seed, cols), rhs |-> RhsOf(p.seed, rows * cols),
     lhs_offset |-> p.loff, dst_offset |-> p.doff,
     dst_multiplier |-> p.m, dst_shift |-> p.s,
     rhs_cols |-> cols, rhs_rows |-> rows,
     activation_min |-> p.amin, activation_max |-> p.amax,
     address_offset |-> ao]

\* the two documented scenarios
ScenarioClamp ==
    [lhs |-> <<1, 2, 3, 4>>, rhs |-> <<1, 1, 1, 1>>, lhs_offset |-> 0, dst_offset |-> 0,
     dst_multiplier |-> INT32_MAX, dst_shift |-> 0, rhs_cols |-> 4, rhs_rows |-> 1,
     activation_min |-> -128, activation_max |-> 5, address_offset |-> 1]

ScenarioStride ==
    [lhs |-> <<0>>, rhs |-> <<10, 20, 30>>, lhs_offset |-> 5, dst_offset |-> 0,
     dst_multiplier |-> INT32_MAX, dst_shift |-> 0, rhs_cols |-> 1, rhs_rows |-> 3,
     activation_min |-> -128, activation_max |-> 127, address_offset |-> 2]

ScenarioBias == [present |-> TRUE, v |-> <<1, 2, 3>>]

\* every build on the same arguments
EachBuild(b) == [i \in 1..Len(Builds) |-> [build |-> Builds[i], bias |-> b]]

\* one build without bias and with a bias of zeros
BiasPair(bd, n) == <<[build |-> bd, bias |-> NoBias], [build |-> bd, bias |-> ZeroBias(n)]>>

NoLocals ==
    [row_loop_cnt |-> 0, i_row |-> 0, loop_cnt |-> 0, col_loop_cnt |-> 0, i |-> 0,
     res |-> <<0, 0, 0, 0>>, rhs_sum |-> <<0, 0, 0>>, col_cnt |-> 0,
     lhs_ptr |-> 0, rhs_ptr |-> <<0, 0, 0>>, rhs |-> 0, bias |-> 0, dst |-> 0,
     lhs_offset_s16x2 |-> <<0, 0>>]

NoHistory ==
    [wcount |-> [i \in 0..DstTop |-> 0], st |-> <<>>, accs |-> <<>>,
     lhsHits |-> [i \in 0..(rhs_cols - 1) |-> 0],
     rhsHits |-> [i \in 0..(rhs_rows * rhs_cols - 1) |-> 0],
     biasHits |-> [i \in 0..(rhs_rows - 1) |-> 0],
     oob |-> 0]

Init ==
    /\ \/ \E p \in Profiles, rows \in 0..MaxRows, cols \in Cols, ao \in 1..MaxAddr :
            /\ arg = Args(p, rows, cols, ao)
            /\ \/ \E b \in Biases(rows) : calls = EachBuild(b)
               \/ \E i \in 1..Len(Builds) : calls = BiasPair(Builds[i], rows)
       \/ /\ arg = ScenarioClamp
          /\ calls = EachBuild(NoBias)
       \/ /\ arg = ScenarioStride
          /\ calls = EachBuild(ScenarioBias)
    /\ k = 1
    /\ pc = "idle"
    /\ l = NoLocals
    /\ dst = Dst0
    /\ ret = "none"
    /\ g = NoHistory
    /\ res = <<>>

\* ------------------------------------------------------------------ driver
\* function entry: the row loop count of the build (and, for the DSP build,
\* the packed lhs_offset)
\* A 32-bit word is kept as its four bytes <<b0, b1, b2, b3>> (b0 at the lowest
\* address, each read as int8) or as its two halfwords <<lo, hi>> (each int16).
PKHBT(x, y, sh) == <<Narrow16(x), Narrow16(y)>>

TileRows == IF build = "DSP" THEN TileRowsDsp ELSE TileRowsWide

Call ==
    /\ pc = "idle"
    /\ k <= Len(calls)
    /\ l' = [NoLocals EXCEPT
                !.row_loop_cnt = rhs_rows \div TileRows,
                !.lhs_offset_s16x2 =
                    IF build = "DSP"
                    THEN PKHBT(Narrow16(arg.lhs_offset), Narrow16(arg.lhs_offset), 16)
                    ELSE <<0, 0>>]
    /\ dst' = Dst0
    /\ g' = NoHistory
    /\ ret' = "none"
    /\ pc' = "row_loop"
    /\ UNCHANGED <<calls, k, arg, res>>

\* return ARM_CMSIS_NN_SUCCESS;
ReturnStatus == "ARM_CMSIS_NN_SUCCESS"

Return ==
    /\ pc = "return"
    /\ ret' = ReturnStatus
    /\ pc' = "done"
    /\ UNCHANGED <<calls, k, arg, l, dst, g, res>>

\* the driver keeps what the call left and moves to the next call
Collect ==
    /\ pc = "done"
    /\ res' = Append(res, [dst |-> dst, ret |-> ret, g |-> g])
    /\ k' = k + 1
    /\ pc' = "idle"
    /\ UNCHANGED <<calls, arg, l, dst, ret, g>>

\* ------------------------------------------------------------ scalar build
\* row of the r-th accumulator of the current tile / of the current remainder row
TileRow(r) == TileRows * l.i_row + r

RemRow == TileRows * l.row_loop_cnt + l.i_row

ScalarRowLoop ==
    /\ pc = "row_loop" /\ build = "SCALAR"
    /\ l.i_row < l.row_loop_cnt
    /\ l' = [l EXCEPT
                !.lhs_ptr = 0,
                !.rhs_ptr = <<l.rhs, l.rhs + rhs_cols, l.rhs + rhs_cols * 2>>,
                !.res = IF bias.present
                        THEN <<BiasAt(l.bias), BiasAt(l.bias + 1), BiasAt(l.bias + 2), 0>>
                        ELSE <<0, 0, 0, 0>>,
                !.bias = IF bias.present THEN l.bias + 3 ELSE l.bias,
                !.i = 0]
    /\ g' = Reads(NewWalk(g), {}, {},
                  IF bias.present THEN {l.bias, l.bias + 1, l.bias + 2} ELSE {})
    /\ pc' = "col_loop"
    /\ UNCHANGED <<calls, k, arg, dst, ret, res>>

ScalarColStep ==
    /\ pc = "col_loop" /\ build = "SCALAR"
    /\ l.i < rhs_cols
    /\ LET rhs_value0 == RhsAt(l.rhs_ptr[1])
           rhs_value1 == RhsAt(l.rhs_ptr[2])
           rhs_value2 == RhsAt(l.rhs_ptr[3])
           lhs_value  == LhsAt(l.lhs_ptr) + arg.lhs_offset
       IN  l' = [l EXCEPT
                    !.res = <<l.res[1] + lhs_value * rhs_value0,
                              l.res[2] + lhs_value * rhs_value1,
                              l.res[3] + lhs_value * rhs_value2, 0>>,
                    !.rhs_ptr = <<l.rhs_ptr[1] + 1, l.rhs_ptr[2] + 1, l.rhs_ptr[3] + 1>>,
                    !.lhs_ptr = l.lhs_ptr + 1,
                    !.i = l.i + 1]
    /\ g' = Reads(g, {l.lhs_ptr}, {l.rhs_ptr[1], l.rhs_ptr[2], l.rhs_ptr[3]}, {})
    /\ UNCHANGED <<calls, k, arg, pc, dst, ret, res>>

ScalarStore ==
    /\ pc = "col_loop" /\ build = "SCALAR"
    /\ ~(l.i < rhs_cols)
    /\ LET q00 == arm_nn_requantize(l.res[1], arg.dst_multiplier, arg.dst_shift) + arg.dst_offset
           q01 == arm_nn_requantize(l.res[2], arg.dst_multiplier, arg.dst_shift) + arg.dst_offset
           q02 == arm_nn_requantize(l.res[3], arg.dst_multiplier, arg.dst_shift) + arg.dst_offset
           res00 == ScalarClamp(q00)
           res01 == ScalarClamp(q01)
           res02 == ScalarClamp(q02)
           d0 == l.dst
           d1 == l.dst + address_offset
           d2 == l.dst + 2 * address_offset
       IN  /\ dst' = Store(Store(Store(dst, d0, res00), d1, res01), d2, res02)
           /\ g' = Stored(Stored(Stored(
                        Requantized(Requantized(Requantized(g,
                            TileRow(0), l.res[1]), TileRow(1), l.res[2]), TileRow(2), l.res[3]),
                        TileRow(0), d0, q00, res00),
                        TileRow(1), d1, q01, res01),
                        TileRow(2), d2, q02, res02)
    /\ l' = [l EXCEPT !.dst = l.dst + 3 * address_offset,
                      !.rhs = l.rhs + 3 * rhs_cols,
                      !.i_row = l.i_row + 1]
    /\ pc' = "row_loop"
    /\ UNCHANGED <<calls, k, arg, ret, res>>

ScalarRowLoopExit ==
    /\ pc = "row_loop" /\ build = "SCALAR"
    /\ ~(l.i_row < l.row_loop_cnt)
    /\ l' = [l EXCEPT !.loop_cnt = rhs_rows % 3, !.i_row = 0]
    /\ pc' = "rem_loop"
    /\ UNCHANGED <<calls, k, arg, dst, ret, g, res>>

ScalarRemLoop ==
    /\ pc = "rem_loop" /\ build = "SCALAR"
    /\ l.i_row < l.loop_cnt
    /\ l' = [l EXCEPT
                !.lhs_ptr = 0,
                !.rhs_ptr = <<l.rhs, 0, 0>>,
                !.res = <<IF bias.present THEN BiasAt(l.bias) ELSE 0, 0, 0, 0>>,
                !.bias = IF bias.present THEN l.bias + 1 ELSE l.bias,
                !.i = 0]
    /\ g' = Reads(NewWalk(g), {}, {}, IF bias.present THEN {l.bias} ELSE {})
    /\ pc' = "rem_col_loop"
    /\ UNCHANGED <<calls, k, arg, dst, ret, res>>

ScalarRemColStep ==
    /\ pc = "rem_col_loop" /\ build = "SCALAR"
    /\ l.i < rhs_cols
    /\ LET rhs_value0 == RhsAt(l.rhs_ptr[1])
           lhs_value  == LhsAt(l.lhs_ptr) + arg.lhs_offset
       IN  l' = [l EXCEPT
                    !.res = <<l.res[1] + lhs_value * rhs_value0, 0, 0, 0>>,
                    !.rhs_ptr = <<l.rhs_ptr[1] + 1, 0, 0>>,
                    !.lhs_ptr = l.lhs_ptr + 1,
                    !.i = l.i + 1]
    /\ g' = Reads(g, {l.lhs_ptr}, {l.rhs_ptr[1]}, {})
    /\ UNCHANGED <<calls, k, arg, pc, dst, ret, res>>

ScalarRemStore ==
    /\ pc = "rem_col_loop" /\ build = "SCALAR"
    /\ ~(l.i < rhs_cols)
    /\ LET q00 == arm_nn_requantize(l.res[1], arg.dst_multiplier, arg.dst_shift) + arg.dst_offset
           res00 == ScalarClamp(q00)
       IN  /\ dst' = Store(dst, l.dst, res00)
           /\ g' = Stored(Requantized(g, RemRow, l.res[1]), RemRow, l.dst, q00, res00)
    /\ l' = [l EXCEPT !.dst = l.dst + address_offset,
                      !.rhs = l.rhs + rhs_cols,
                      !.i_row = l.i_row + 1]
    /\ pc' = "rem_loop"
    /\ UNCHANGED <<calls, k, arg, ret, res>>

ScalarRemLoopExit ==
    /\ pc = "rem_loop" /\ build = "SCALAR"
    /\ ~(l.i_row < l.loop_cnt)
    /\ pc' = "return"
    /\ UNCHANGED <<calls, k, arg, l, dst, ret, g, res>>

Scalar ==
    \/ ScalarRowLoop \/ ScalarColStep \/ ScalarStore \/ ScalarRowLoopExit
    \/ ScalarRemLoop \/ ScalarRemColStep \/ ScalarRemStore \/ ScalarRemLoopExit

\* --------------------------------------------------------------- DSP build
\* the word at p (four bytes, little endian)
arm_nn_read_s8x4(mem, p) == <<At(mem, p), At(mem, p + 1), At(mem, p + 2), At(mem, p + 3)>>

\* rotate right by rot bits, rot a multiple of 8
ROR(w, rot) == [n \in 1..4 |-> w[((n - 1 + rot \div 8) % 4) + 1]]

\* sign-extend bytes 0 and 2 into the two halfwords
SXTB16(w) == <<w[1], w[3]>>

\* mutant: the rotation is dropped, bytes 0 and 2 are taken again
SXTB16NoRotation(w, rot) == SXTB16(w)

SXTB16_RORn(w, rot) == SXTB16(ROR(w, rot))

\* halfword-wise x + sign-extended bytes 0 and 2 of w
SXTAB16(x, w) == <<Narrow16(x[1] + w[1]), Narrow16(x[2] + w[3])>>

SXTAB16_RORn(x, w, rot) == SXTAB16(x, ROR(w, rot))

\* dual 16-bit multiply, both products added to sum
SMLAD(x, y, sum) == sum + x[1] * y[1] + x[2] * y[2]

Word(p) == {p, p + 1, p + 2, p + 3}

\* mutant: one off, -1 for fewer than four columns
DspColLoopCntOneLess == (rhs_cols \div 4) - 1

\* const int32_t col_loop_cnt = rhs_cols / 4;
DspColLoopCnt == rhs_cols \div 4

DspRowLoop ==
    /\ pc = "row_loop" /\ build = "DSP"
    /\ l.i_row < l.row_loop_cnt
    /\ l' = [l EXCEPT
                !.res = IF bias.present
                        THEN <<BiasAt(l.bias), BiasAt(l.bias + 1), 0, 0>>
                        ELSE <<0, 0, 0, 0>>,
                !.bias = IF bias.present THEN l.bias + 2 ELSE l.bias,
                !.col_loop_cnt = DspColLoopCnt,
                !.lhs_ptr = 0,
                !.rhs_ptr = <<l.rhs, l.rhs + rhs_cols, 0>>,
                !.rhs = l.rhs + 2 * rhs_cols,
                !.i = DspColLoopCnt]
    /\ g' = Reads(NewWalk(g), {}, {}, IF bias.present THEN {l.bias, l.bias + 1} ELSE {})
    /\ pc' = "col_loop"
    /\ UNCHANGED <<calls, k, arg, dst, ret, res>>

DspColStep ==
    /\ pc = "col_loop" /\ build = "DSP"
    /\ l.i # 0
    /\ LET w     == arm_nn_read_s8x4("lhs", l.lhs_ptr)
           vec_1 == SXTAB16_RORn(l.lhs_offset_s16x2, w, 8)
           vec_0 == SXTAB16(l.lhs_offset_s16x2, w)
           k0    == arm_nn_read_s8x4("rhs", l.rhs_ptr[1])
           k0_1  == SXTB16_RORn(k0, 8)
           k0_0  == SXTB16(k0)
           acc_0 == SMLAD(k0_0, vec_0, SMLAD(k0_1, vec_1, l.res[1]))
           k1    == arm_nn_read_s8x4("rhs", l.rhs_ptr[2])
           k1_1  == SXTB16_RORn(k1, 8)
           k1_0  == SXTB16(k1)
           acc_1 == SMLAD(k1_0, vec_0, SMLAD(k1_1, vec_1, l.res[2]))
       IN  l' = [l EXCEPT
                    !.res = <<acc_0, acc_1, 0, 0>>,
                    !.lhs_ptr = l.lhs_ptr + 4,
                    !.rhs_ptr = <<l.rhs_ptr[1] + 4, l.rhs_ptr[2] + 4, 0>>,
                    !.i = l.i - 1]
    /\ g' = Reads(g, Word(l.lhs_ptr), Word(l.rhs_ptr[1]) \cup Word(l.rhs_ptr[2]), {})
    /\ UNCHANGED <<calls, k, arg, pc, dst, ret, res>>

DspColLoopExit ==
    /\ pc = "col_loop" /\ build = "DSP"
    /\ ~(l.i # 0)
    /\ l' = [l EXCEPT !.i = l.col_loop_cnt * 4]
    /\ pc' = "cleanup"
    /\ UNCHANGED <<calls, k, arg, dst, ret, g, res>>

DspCleanupStep ==
    /\ pc = "cleanup" /\ build = "DSP"
    /\ l.i < rhs_cols
    /\ LET lhs_temp == LhsAt(l.lhs_ptr) + arg.lhs_offset
       IN  l' = [l EXCEPT
                    !.res = <<l.res[1] + lhs_temp * RhsAt(l.rhs_ptr[1]),
                              l.res[2] + lhs_temp * RhsAt(l.rhs_ptr[2]), 0, 0>>,
                    !.lhs_ptr = l.lhs_ptr + 1,
                    !.rhs_ptr = <<l.rhs_ptr[1] + 1, l.rhs_ptr[2] + 1, 0>>,
                    !.i = l.i + 1]
    /\ g' = Reads(g, {l.lhs_ptr}, {l.rhs_ptr[1], l.rhs_ptr[2]}, {})
    /\ UNCHANGED <<calls, k, arg, pc, dst, ret, res>>

DspStore ==
    /\ pc = "cleanup" /\ build = "DSP"
    /\ ~(l.i < rhs_cols)
    /\ LET q0 == arm_nn_requantize(l.res[1], arg.dst_multiplier, arg.dst_shift) + arg.dst_offset
           q1 == arm_nn_requantize(l.res[2], arg.dst_multiplier, arg.dst_shift) + arg.dst_offset
           acc_0 == DspClamp(q0)
           acc_1 == DspClamp(q1)
           d0 == l.dst
           d1 == l.dst + address_offset
       IN  /\ dst' = Store(Store(dst, d0, acc_0), d1, acc_1)
           /\ g' = Stored(Stored(
                        Requantized(Requantized(g, TileRow(0), l.res[1]), TileRow(1), l.res[2]),
                        TileRow(0), d0, q0, acc_0),
                        TileRow(1), d1, q1, acc_1)
    /\ l' = [l EXCEPT !.dst = l.dst + 2 * address_offset, !.i_row = l.i_row + 1]
    /\ pc' = "row_loop"
    /\ UNCHANGED <<calls, k, arg, ret, res>>

DspRowLoopExit ==
    /\ pc = "row_loop" /\ build = "DSP"
    /\ ~(l.i_row < l.row_loop_cnt)
    /\ l' = [l EXCEPT !.i_row = 0]
    /\ pc' = IF rhs_rows % 2 = 1 THEN "rem_loop" ELSE "return"
    /\ UNCHANGED <<calls, k, arg, dst, ret, g, res>>

DspRem ==
    /\ pc = "rem_loop" /\ build = "DSP"
    /\ l' = [l EXCEPT
                !.res = <<IF bias.present THEN BiasAt(l.bias) ELSE 0, 0, 0, 0>>,
                !.bias = IF bias.present THEN l.bias + 1 ELSE l.bias,
                !.col_loop_cnt = DspColLoopCnt,
                !.lhs_ptr = 0,
                !.rhs_ptr = <<l.rhs, 0, 0>>,
                !.i = DspColLoopCnt]
    /\ g' = Reads(NewWalk(g), {}, {}, IF bias.present THEN {l.bias} ELSE {})
    /\ pc' = "rem_col_loop"
    /\ UNCHANGED <<calls, k, arg, dst, ret, res>>

DspRemColStep ==
    /\ pc = "rem_col_loop" /\ build = "DSP"
    /\ l.i # 0
    /\ LET w     == arm_nn_read_s8x4("lhs", l.lhs_ptr)
           vec_1 == SXTAB16_RORn(l.lhs_offset_s16x2, w, 8)
           vec_0 == SXTAB16(l.lhs_offset_s16x2, w)
           k0    == arm_nn_read_s8x4("rhs", l.rhs_ptr[1])
           ker_1 == SXTB16_RORn(k0, 8)
           ker_0 == SXTB16(k0)
           acc_0 == SMLAD(ker_0, vec_0, SMLAD(ker_1, vec_1, l.res[1]))
       IN  l' = [l EXCEPT
                    !.res = <<acc_0, 0, 0, 0>>,
                    !.lhs_ptr = l.lhs_ptr + 4,
                    !.rhs_ptr = <<l.rhs_ptr[1] + 4, 0, 0>>,
                    !.i = l.i - 1]
    /\ g' = Reads(g, Word(l.lhs_ptr), Word(l.rhs_ptr[1]), {})
    /\ UNCHANGED <<calls, k, arg, pc, dst, ret, res>>

DspRemColLoopExit ==
    /\ pc = "rem_col_loop" /\ build = "DSP"
    /\ ~(l.i # 0)
    /\ l' = [l EXCEPT !.i = l.col_loop_cnt * 4]
    /\ pc' = "rem_cleanup"
    /\ UNCHANGED <<calls, k, arg, dst, ret, g, res>>

DspRemCleanupStep ==
    /\ pc = "rem_cleanup" /\ build = "DSP"
    /\ l.i < rhs_cols
    /\ LET lhs_temp == LhsAt(l.lhs_ptr) + arg.lhs_offset
       IN  l' = [l EXCEPT
                    !.res = <<l.res[1] + lhs_temp * RhsAt(l.rhs_ptr[1]), 0, 0, 0>>,
                    !.lhs_ptr = l.lhs_ptr + 1,
                    !.rhs_ptr = <<l.rhs_ptr[1] + 1, 0, 0>>,
                    !.i = l.i + 1]
    /\ g' = Reads(g, {l.lhs_ptr}, {l.rhs_ptr[1]}, {})
    /\ UNCHANGED <<calls, k, arg, pc, dst, ret, res>>

DspRemStore ==
    /\ pc = "rem_cleanup" /\ build = "DSP"
    /\ ~(l.i < rhs_cols)
    /\ LET q0 == arm_nn_requantize(l.res[1], arg.dst_multiplier, arg.dst_shift) + arg.dst_offset
           acc_0 == DspClamp(q0)
       IN  /\ dst' = Store(dst, l.dst, acc_0)
           /\ g' = Stored(Requantized(g, RemRow, l.res[1]), RemRow, l.dst, q0, acc_0)
    /\ l' = [l EXCEPT !.dst = l.dst + address_offset]
    /\ pc' = "return"
    /\ UNCHANGED <<calls, k, arg, ret, res>>

Dsp ==
    \/ DspRowLoop \/ DspColStep \/ DspColLoopExit \/ DspCleanupStep \/ DspStore
    \/ DspRowLoopExit \/ DspRem \/ DspRemColStep \/ DspRemColLoopExit
    \/ DspRemCleanupStep \/ DspRemStore

\* -------------------------------------------------------------- MVEI build
\* An 8-bit vector has lanes 0..15, a 32-bit vector lanes 0..3; a predicate is
\* the set of its active lanes.  The uint32_t col_cnt is kept as the signed
\* reading of its 32 bits: negative stands for a value of 2^31 or more.
Lanes8 == 0..(VecLanes - 1)

Lanes32 == 0..3

\* mutant: no tail predication, every lane is active
vctp8qAllLanes(n) == Lanes8

vctp8q(n) == {i \in Lanes8 : n < 0 \/ i < n}

vctp32q(n) == {i \in Lanes32 : n < 0 \/ i < n}

\* zeroing predicated byte load: inactive lanes read nothing and are 0
vldrbq_z_s8(mem, base, p) == [i \in Lanes8 |-> IF i \in p THEN At(mem, base + i) ELSE 0]

vldrwq_z_s32(mem, base, p) == [i \in Lanes32 |-> IF i \in p THEN At(mem, base + i) ELSE 0]

RECURSIVE SumLanes(_, _)
SumLanes(v, n) == IF n < 0 THEN 0 ELSE v[n] + SumLanes(v, n - 1)

\* mutant: the running sum is dropped, only the last chunk counts
vaddvqNoAccumulate(a, v) == SumLanes(v, VecLanes - 1)

vaddvaq_s8(a, v) == a + SumLanes(v, VecLanes - 1)

vmladavaq_s8(a, x, y) == a + SumLanes([i \in Lanes8 |-> x[i] * y[i]], VecLanes - 1)

\* the _x form leaves the inactive lanes undefined: u is what they hold
vaddq_x_s32(a, b, p, u) == [i \in Lanes32 |-> IF i \in p THEN a[i] + b[i] ELSE u]

vdupq_n_s32(x) == [i \in Lanes32 |-> x]

\* values an undefined 32-bit lane may hold
UndefLane == {0, 100000}

\* mutant: the stride is ignored
AddressOffsetArrayPacked == [i \in Lanes32 |-> i]

address_offset_array ==
    [i \in Lanes32 |-> <<0, address_offset, address_offset * 2, address_offset * 3>>[i + 1]]

\* the lanes a byte-narrowing store of a 32-bit vector writes, as <<index, lane>>
vstrbq_scatter_offset_s32(base, offs) == [i \in Lanes32 |-> base + offs[i]]

vstrbq_p_s32(base, p) == [i \in p |-> base + i]

Active(base, p) == {base + i : i \in p}

MveRowLoop ==
    /\ pc = "row_loop" /\ build = "MVEI"
    /\ l.i_row < l.row_loop_cnt
    /\ l' = [l EXCEPT
                !.res = <<0, 0, 0, 0>>,
                !.col_loop_cnt = (rhs_cols + 15) \div 16,
                !.lhs_ptr = 0,
                !.rhs_ptr = <<l.rhs, l.rhs + rhs_cols, l.rhs + 2 * rhs_cols>>,
                !.rhs_sum = <<0, 0, 0>>,
                !.col_cnt = rhs_cols,
                !.i = 0]
    /\ g' = NewWalk(g)
    /\ pc' = "col_loop"
    /\ UNCHANGED <<calls, k, arg, dst, ret, res>>

MveColStep ==
    /\ pc = "col_loop" /\ build = "MVEI"
    /\ l.i < l.col_loop_cnt
    /\ LET p     == vctp8q(l.col_cnt)
           input == vldrbq_z_s8("lhs", l.lhs_ptr, p)
           ker_0 == vldrbq_z_s8("rhs", l.rhs_ptr[1], p)
           ker_1 == vldrbq_z_s8("rhs", l.rhs_ptr[2], p)
           ker_2 == vldrbq_z_s8("rhs", l.rhs_ptr[3], p)
       IN  /\ l' = [l EXCEPT
                    !.col_cnt = l.col_cnt - 16,
                    !.rhs_sum = <<vaddvaq_s8(l.rhs_sum[1], ker_0),
                                  vaddvaq_s8(l.rhs_sum[2], ker_1),
                                  vaddvaq_s8(l.rhs_sum[3], ker_2)>>,
                    !.res = <<vmladavaq_s8(l.res[1], ker_0, input),
                              vmladavaq_s8(l.res[2], ker_1, input),
                              vmladavaq_s8(l.res[3], ker_2, input), 0>>,
                    !.lhs_ptr = l.lhs_ptr + 16,
                    !.rhs_ptr = <<l.rhs_ptr[1] + 16, l.rhs_ptr[2] + 16, l.rhs_ptr[3] + 16>>,
                    !.i = l.i + 1]
           /\ g' = Reads(g, Active(l.lhs_ptr, p),
                         Active(l.rhs_ptr[1], p) \cup Active(l.rhs_ptr[2], p)
                             \cup Active(l.rhs_ptr[3], p), {})
    /\ UNCHANGED <<calls, k, arg, pc, dst, ret, res>>

\* after the column loop: bias and the lhs_offset * rhs_sum correction
MveTileAcc ==
    /\ pc = "col_loop" /\ build = "MVEI"
    /\ ~(l.i < l.col_loop_cnt)
    /\ \E u \in UndefLane :
         LET acc0    == [i \in Lanes32 |-> l.res[i + 1]]
             p       == vctp32q(3)
             b       == vldrwq_z_s32("bias", l.bias, p)
             acc1    == IF bias.present THEN vaddq_x_s32(acc0, b, p, u) ELSE acc0
             rhs_sum == [i \in Lanes32 |-> <<l.rhs_sum[1], l.rhs_sum[2], l.rhs_sum[3], 0>>[i + 1]]
             acc     == [i \in Lanes32 |-> acc1[i] + vdupq_n_s32(arg.lhs_offset)[i] * rhs_sum[i]]
         IN  /\ l' = [l EXCEPT
                        !.rhs = l.rhs + 3 * rhs_cols,
                        !.bias = IF bias.present THEN l.bias + 3 ELSE l.bias,
                        !.res = <<acc[0], acc[1], acc[2], acc[3]>>]
             /\ g' = Reads(g, {}, {}, IF bias.present THEN Active(l.bias, p) ELSE {})
    /\ pc' = "store"
    /\ UNCHANGED <<calls, k, arg, dst, ret, res>>

\* row a stored lane belongs to: lanes 0..2 hold the rows of the tile
LaneRow(i) == IF i < 3 THEN TileRow(i) ELSE -1

RECURSIVE StoreLanes(_, _, _, _)
StoreLanes(m, where, v, todo) ==
    IF todo = {} THEN m
    ELSE LET i == CHOOSE x \in todo : \A y \in todo : x <= y
         IN  StoreLanes(Store(m, where[i], v[i]), where, v, todo \ {i})

RECURSIVE StoredLanes(_, _, _, _, _)
StoredLanes(h, where, pre, v, todo) ==
    IF todo = {} THEN h
    ELSE LET i == CHOOSE x \in todo : \A y \in todo : x <= y
         IN  StoredLanes(Stored(h, LaneRow(i), where[i], pre[i], v[i]), where, pre, v, todo \ {i})

MveStore ==
    /\ pc = "store" /\ build = "MVEI"
    /\ LET acc0  == [i \in Lanes32 |-> l.res[i + 1]]
           p     == vctp32q(3)
           q     == arm_requantize_mve(acc0, arg.dst_multiplier, arg.dst_shift)
           pre   == [i \in Lanes32 |-> q[i] + vdupq_n_s32(arg.dst_offset)[i]]
           acc   == [i \in Lanes32 |->
                        MIN(MAX(pre[i], vdupq_n_s32(arg.activation_min)[i]),
                            vdupq_n_s32(arg.activation_max)[i])]
           where == IF address_offset > 1
                    THEN vstrbq_scatter_offset_s32(l.dst, address_offset_array)
                    ELSE vstrbq_p_s32(l.dst, p)
       IN  /\ dst' = StoreLanes(dst, where, acc, DOMAIN where)
           /\ g' = StoredLanes(
                        Requantized(Requantized(Requantized(g,
                            TileRow(0), acc0[0]), TileRow(1), acc0[1]), TileRow(2), acc0[2]),
                        where, pre, acc, DOMAIN where)
    /\ l' = [l EXCEPT !.dst = l.dst + 3 * address_offset, !.i_row = l.i_row + 1]
    /\ pc' = "row_loop"
    /\ UNCHANGED <<calls, k, arg, ret, res>>

MveRowLoopExit ==
    /\ pc = "row_loop" /\ build = "MVEI"
    /\ ~(l.i_row < l.row_loop_cnt)
    /\ l' = [l EXCEPT !.loop_cnt = rhs_rows % 3, !.i_row = 0]
    /\ pc' = "rem_loop"
    /\ UNCHANGED <<calls, k, arg, dst, ret, g, res>>

MveRemLoop ==
    /\ pc = "rem_loop" /\ build = "MVEI"
    /\ l.i_row < l.loop_cnt
    /\ l' = [l EXCEPT
                !.res = <<0, 0, 0, 0>>,
                !.col_loop_cnt = (rhs_cols + 15) \div 16,
                !.lhs_ptr = 0,
                !.rhs_ptr = <<l.rhs, 0, 0>>,
                !.rhs_sum = <<0, 0, 0>>,
                !.col_cnt = rhs_cols,
                !.i = 0]
    /\ g' = NewWalk(g)
    /\ pc' = "rem_col_loop"
    /\ UNCHANGED <<calls, k, arg, dst, ret, res>>

MveRemColStep ==
    /\ pc = "rem_col_loop" /\ build = "MVEI"
    /\ l.i < l.col_loop_cnt
    /\ LET p     == vctp8q(l.col_cnt)
           input == vldrbq_z_s8("lhs", l.lhs_ptr, p)
           ker_0 == vldrbq_z_s8("rhs", l.rhs_ptr[1], p)
       IN  /\ l' = [l EXCEPT
                    !.col_cnt = l.col_cnt - 16,
                    !.rhs_sum = <<vaddvaq_s8(l.rhs_sum[1], ker_0), 0, 0>>,
                    !.res = <<vmladavaq_s8(l.res[1], ker_0, input), 0, 0, 0>>,
                    !.lhs_ptr = l.lhs_ptr + 16,
                    !.rhs_ptr = <<l.rhs_ptr[1] + 16, 0, 0>>,
                    !.i = l.i + 1]
           /\ g' = Reads(g, Active(l.lhs_ptr, p), Active(l.rhs_ptr[1], p), {})
    /\ UNCHANGED <<calls, k, arg, pc, dst, ret, res>>

MveRemStore ==
    /\ pc = "rem_col_loop" /\ build = "MVEI"
    /\ ~(l.i < l.col_loop_cnt)
    /\ LET withBias == l.res[1] + (IF bias.present THEN BiasAt(l.bias) ELSE 0)
           offsets  == l.rhs_sum[1] * arg.lhs_offset
           acc_0    == withBias + offsets
           q0       == arm_nn_requantize(acc_0, arg.dst_multiplier, arg.dst_shift) + arg.dst_offset
           out      == MveRemClamp(q0)
       IN  /\ dst' = Store(dst, l.dst, out)
           /\ g' = Stored(Requantized(
                        Reads(g, {}, {}, IF bias.present THEN {l.bias} ELSE {}),
                        RemRow, acc_0), RemRow, l.dst, q0, out)
    /\ l' = [l EXCEPT !.rhs = l.rhs + rhs_cols,
                      !.bias = IF bias.present THEN l.bias + 1 ELSE l.bias,
                      !.dst = l.dst + address_offset,
                      !.i_row = l.i_row + 1]
    /\ pc' = "rem_loop"
    /\ UNCHANGED <<calls, k, arg, ret, res>>

MveRemLoopExit ==
    /\ pc = "rem_loop" /\ build = "MVEI"
    /\ ~(l.i_row < l.loop_cnt)
    /\ pc' = "return"
    /\ UNCHANGED <<calls, k, arg, l, dst, ret, g, res>>

Mve ==
    \/ MveRowLoop \/ MveColStep \/ MveTileAcc \/ MveStore \/ MveRowLoopExit
    \/ MveRemLoop \/ MveRemColStep \/ MveRemStore \/ MveRemLoopExit

Next == Call \/ Return \/ Collect \/ Scalar \/ Dsp \/ Mve

Spec == Init /\ [][Next]_vars

\* ============================================================== properties
\* what the function is to compute for row r with bias b
RECURSIVE RowSum(_, _)
RowSum(r, n) ==
    IF n = 0 THEN 0
    ELSE RowSum(r, n - 1) + (arg.lhs[n] + arg.lhs_offset) * arg.rhs[r * rhs_cols + n]

BiasOf(b, r) == IF b.present THEN b.v[r + 1] ELSE 0

RowAcc(b, r) == BiasOf(b, r) + RowSum(r, rhs_cols)

Saturate(v) ==
    IF v < arg.activation_min THEN arg.activation_min
    ELSE IF v > arg.activation_max THEN arg.activation_max ELSE v

Expected(b, r) ==
    Narrow8(Saturate(arm_nn_requantize(RowAcc(b, r), arg.dst_multiplier, arg.dst_shift)
                     + arg.dst_offset))

Rows == 0..(rhs_rows - 1)

RowIndexes == {r * address_offset : r \in Rows}

Returned == pc = "done"

AllBuildsRan == Len(res) = Len(Builds) /\ \A i \in 1..Len(Builds) : calls[i].build = Builds[i]

BiasPairRan == Len(res) = 2 /\ Len(calls) = 2

\* C1: the three builds leave the same bytes in the whole destination memory
CrossStrategyEquivalence ==
    AllBuildsRan => res[1].dst = res[2].dst /\ res[2].dst = res[3].dst

\* C2: after the return, dst[r * address_offset] is the saturated, requantized
\* sum bias[r] + SUM (lhs[c] + lhs_offset) * rhs[r * rhs_cols + c], for every row r
RowResults ==
    Returned => \A r \in Rows : dst[r * address_offset] = Expected(bias, r)

RowResultsWitness ==
    /\ Returned /\ rhs_rows = 5 /\ rhs_cols = 5 /\ address_offset = 2
    /\ bias.present /\ \E r \in Rows : bias.v[r + 1] # 0
    /\ \E r1, r2 \in Rows :
          /\ dst[r1 * address_offset] # dst[r2 * address_offset]
          /\ arg.activation_min < dst[r1 * address_offset]
          /\ dst[r1 * address_offset] < arg.activation_max
          /\ Expected(bias, r1) # Expected(NoBias, r1)

\* C3: every dst[r * address_offset], r a row, is written exactly once in a call
RowsWrittenOnce ==
    Returned => \A r \in Rows : g.wcount[r * address_offset] = 1

\* C4: a call without bias and a call with a bias of zeros leave the same bytes
BiasAbsenceEquivalence ==
    BiasPairRan => res[1].dst = res[2].dst

\* C5: each value stored for a row is the value before clamping, saturated to
\* [activation_min, activation_max] and unchanged by the narrowing to 8 bits;
\* the documented scenario with activation_max = 5 ends with dst[0] = 5
StoredInRange ==
    /\ \A n \in 1..Len(g.st) :
          g.st[n].row >= 0 =>
            /\ g.st[n].val = Saturate(g.st[n].pre)
            /\ dst[g.st[n].idx] = g.st[n].val \/ \E j \in (n + 1)..Len(g.st) : g.st[j].idx = g.st[n].idx
    /\ Returned => \A r \in Rows : /\ arg.activation_min <= dst[r * address_offset]
                                    /\ dst[r * address_offset] <= arg.activation_max
    /\ Returned /\ arg = ScenarioClamp => dst[0] = 5

StoredInRangeWitness ==
    /\ Returned
    /\ \E a, b, c, d \in 1..Len(g.st) :
          /\ g.st[a].row >= 0 /\ g.st[a].pre > arg.activation_max
          /\ g.st[b].row >= 0 /\ g.st[b].pre < arg.activation_min
          /\ g.st[c].row >= 0 /\ g.st[c].pre = arg.activation_max
          /\ g.st[d].row >= 0 /\ g.st[d].pre > arg.activation_min
          /\ g.st[d].pre < arg.activation_max /\ dst[g.st[d].idx] = g.st[d].pre

\* C6: for every row the accumulator handed to the requantizer is the same
\* 32-bit integer in the three builds, namely bias[r] + SUM (lhs[c] + lhs_offset) * rhs[..]
AccumulatorsAgree ==
    AllBuildsRan =>
        \A i \in 1..Len(Builds) :
            /\ Len(res[i].g.accs) = rhs_rows
            /\ \A n \in 1..rhs_rows :
                  /\ res[i].g.accs[n].row = n - 1
                  /\ res[i].g.accs[n].acc = res[1].g.accs[n].acc
                  /\ res[i].g.accs[n].acc = RowAcc(calls[i].bias, n - 1)

AccumulatorsAgreeWitness ==
    /\ AllBuildsRan /\ rhs_rows = 5 /\ rhs_cols = 17 /\ arg.lhs_offset # 0
    /\ calls[1].bias.present
    /\ \E n \in 1..rhs_rows : res[3].g.accs[n].acc # RowSum(n - 1, rhs_cols)
    /\ \E n, m \in 1..rhs_rows : res[3].g.accs[n].acc # res[3].g.accs[m].acc

\* C7: the documented strided scenario ends with dst[0] = 51, dst[2] = 102, dst[4] = 127
StrideScenario ==
    Returned /\ arg = ScenarioStride => dst[0] = 51 /\ dst[2] = 102 /\ dst[4] = 127

StrideScenarioWitness ==
    Returned /\ arg = ScenarioStride /\ build = "MVEI" /\ bias = ScenarioBias /\ dst[4] = 127

\* C8: every call returns, what it returns is ARM_CMSIS_NN_SUCCESS, and a call
\* with rhs_rows = 0 returns without writing dst.  A call returns because every
\* state before the last return has a step to take and every step lowers
\* Measure, a tuple of naturals in lexicographic order: calls left, stage of
\* the call, rows left in the stage, position in the row, iterations left in
\* the loop
AllReturned == pc = "idle" /\ k > Len(calls)

\* some statement of the running build is at pc
CanStep ==
    \/ pc = "idle" /\ k <= Len(calls)
    \/ pc \in {"return", "done"}
    \/ /\ pc \in {"row_loop", "col_loop", "rem_loop", "rem_col_loop"}
       /\ build \in {Builds[i] : i \in 1..Len(Builds)}
    \/ pc \in {"cleanup", "rem_cleanup"} /\ build = "DSP"
    \/ pc = "store" /\ build = "MVEI"

Stage ==
    CASE pc = "idle" -> 4
      [] pc \in {"row_loop", "col_loop", "cleanup", "store"} -> 3
      [] pc \in {"rem_loop", "rem_col_loop", "rem_cleanup"} -> 2
      [] pc = "return" -> 1
      [] OTHER -> 0

RowsLeft ==
    CASE Stage = 3 -> l.row_loop_cnt - l.i_row
      [] Stage = 2 -> IF build = "DSP" THEN 1 ELSE l.loop_cnt - l.i_row
      [] OTHER -> 0

Position ==
    CASE pc \in {"row_loop", "rem_loop"} -> 4
      [] pc \in {"col_loop", "rem_col_loop"} -> 3
      [] pc \in {"cleanup", "rem_cleanup"} -> 2
      [] pc = "store" -> 1
      [] OTHER -> 0

IterationsLeft ==
    CASE pc \in {"col_loop", "rem_col_loop"} ->
            IF build = "SCALAR" THEN rhs_cols - l.i
            ELSE IF build = "DSP" THEN l.i ELSE l.col_loop_cnt - l.i
      [] pc \in {"cleanup", "rem_cleanup"} -> rhs_cols - l.i
      [] OTHER -> 0

Measure == <<(Len(calls) + 1) - k, Stage, RowsLeft, Position, IterationsLeft>>

RECURSIVE LexLess(_, _)
LexLess(x, y) ==
    IF x = <<>> THEN FALSE
    ELSE x[1] < y[1] \/ (x[1] = y[1] /\ LexLess(Tail(x), Tail(y)))

Termination ==
    /\ [](AllReturned \/ CanStep)
    /\ [](\A n \in 1..Len(Measure) : Measure[n] >= 0)
    /\ [][LexLess(Measure', Measure)]_vars
    /\ [](Returned => /\ ret = "ARM_CMSIS_NN_SUCCESS"
                       /\ rhs_rows = 0 => dst = Dst0 /\ g.st = <<>>)

TerminationWitness ==
    /\ AllReturned /\ rhs_rows = 5 /\ rhs_cols = 17 /\ Len(res) = 3
    /\ \A i \in 1..Len(res) : res[i].ret = "ARM_CMSIS_NN_SUCCESS"

\* C9: a column walk reads lhs[c] exactly once for each c < rhs_cols and nothing
\* else of lhs, reads of rhs through the pointer of a row stay in that row, and
\* a call reads each element of rhs exactly once
WalkDone ==
    \/ pc \in {"col_loop", "rem_col_loop"} /\ build = "SCALAR" /\ ~(l.i < rhs_cols)
    \/ pc \in {"cleanup", "rem_cleanup"} /\ build = "DSP" /\ ~(l.i < rhs_cols)
    \/ pc \in {"col_loop", "rem_col_loop"} /\ build = "MVEI" /\ ~(l.i < l.col_loop_cnt)

InWalk == pc \in {"col_loop", "cleanup", "rem_col_loop", "rem_cleanup"}

InTile == pc \in {"col_loop", "cleanup"}

RowsInWalk == IF InTile THEN TileRows ELSE 1

RowOfPtr(j) == IF InTile THEN TileRow(j - 1) ELSE RemRow

ColumnCoverage ==
    /\ g.oob = 0
    /\ WalkDone => \A c \in 0..(rhs_cols - 1) : g.lhsHits[c] = 1
    /\ InWalk => \A j \in 1..RowsInWalk : l.rhs_ptr[j] = RowOfPtr(j) * rhs_cols + l.lhs_ptr
    /\ InWalk => \A c \in 0..(rhs_cols - 1) :
                    g.lhsHits[c] = (IF c < l.lhs_ptr THEN 1 ELSE 0)
    /\ Returned => \A i \in 0..(rhs_rows * rhs_cols - 1) : g.rhsHits[i] = 1

ColumnCoverageWitness ==
    /\ pc = "col_loop" /\ build = "MVEI" /\ WalkDone /\ rhs_cols = 17 /\ l.i_row = 1
    /\ l.col_cnt < 0

\* C10: a call changes no byte of dst other than dst[r * address_offset], r a row
FrameOfDst ==
    Returned => \A i \in 0..DstTop : i \notin RowIndexes => dst[i] = Dst0[i]

====
